---- MODULE Spec2Model ----
(***************************************************************************)
(* User Management REST API (server.js): four route handlers over a        *)
(* collection of user records kept as a JSON array in the file users.json. *)
(*                                                                         *)
(* Encoding of JavaScript values:                                          *)
(*   - an object (a user record, a request body) is a function from field  *)
(*     names to values; the empty object {} is the empty function <<>>;    *)
(*   - the string Date.now().toString() + <random suffix> is the pair      *)
(*     <<milliseconds, suffix>>: Date.now() has a fixed number of digits,  *)
(*     so two such strings are equal exactly when both parts are equal;    *)
(*   - an ISO timestamp is the millisecond count it was formatted from     *)
(*     (toISOString is injective and order preserving);                    *)
(*   - the values of the field age are JSON texts: "0", "30", "null";      *)
(*   - findIndex's result is 1-based, and 0 stands for JavaScript's -1.    *)
(* In Spec the requests are served one at a time and file I/O does not     *)
(* fail transiently (a missing or unparseable file is a state of the file).*)
(***************************************************************************)
EXTENDS Integers, Sequences, FiniteSets, TLC

VARIABLES
    file,      \* content of users.json (DB_FILE)
    now,       \* the last value the server read from its clock
    route,     \* the route that served the last request
    resp,      \* the response to that request
    io,        \* the file operations its handler performed, in order
    issued,    \* history: the _ids generateId has returned to answered creates
    deleted,   \* history: ids deleted with 200 since the last create or update
    created,   \* history: records answered 201, in order, while no delete succeeded
    noDelete,  \* history: no delete has responded 200 so far
    noUpdate,  \* history: no update has responded 200 so far
    flight,    \* the requests in flight: per slot, where its handler stands
    stable,    \* history: the collection users.json held after its last completed write
    before,    \* history: users.json when the request served alone arrived
    readErr    \* history: the read of the request served alone threw

vars == <<file, now, route, resp, io, issued, deleted, created, noDelete, noUpdate,
          flight, stable, before, readErr>>

(* ------------------------------ bounds -------------------------------- *)

\* The clock takes the values 0..MaxTime.
MaxTime == 1

\* Creates are issued while the collection holds fewer than MaxUsers records.
MaxUsers == 3

\* In SpecCreated creates are issued while it holds fewer than MaxRoundTrip.
MaxRoundTrip == 2

\* Requests in flight at once in SpecConc and SpecLive.
MaxInFlight == 2

\* Outcomes of Math.random().toString(36).substr(2, 5).
Rand == {"k3x9q", "7fz0a"}

Times == 0..MaxTime

\* The strings generateId can return; path ids and client-chosen _ids too.
IdSpace == Times \X Rand

\* Bodies of POST /users: two valid ones (optional fields falsy, optional
\* fields given), then bodies whose name or email is absent or empty.
CreateBodies ==
    { [name |-> "Ann", email |-> "a@x", age |-> "0", country |-> ""],
      [name |-> "Bob", email |-> "b@x", age |-> "30", country |-> "FR"],
      [email |-> "a@x"],
      [name |-> "Ann"],
      [name |-> "", email |-> "b@x"],
      [name |-> "Bob", email |-> ""],
      <<>> }

\* An _id a client puts in the body of an update.
ClientId == <<0, "k3x9q">>

\* Bodies of PUT /users/:id: one field, every field a client may add or
\* overwrite that the first body leaves out, and no field.
UpdateBodies ==
    { [name |-> "X"],
      [_id |-> ClientId, email |-> "a@x", role |-> "admin",
       createdAt |-> 0, updatedAt |-> 0],
      <<>> }

(* --------------------------- the backing file -------------------------- *)

Missing == [kind |-> "missing", value |-> <<>>]
Garbage == [kind |-> "garbage", value |-> <<>>]

\* JSON.stringify(users, null, 2): the text of a JSON array of records.
JSONstringify(users) == [kind |-> "json", value |-> users]

\* readUsers: the parsed array, or [] when readFile or JSON.parse throws.
readUsers(f) == IF f.kind = "json" THEN f.value ELSE <<>>

\* writeUsers: the file's content after writeFile.
writeUsers(users) == JSONstringify(users)

(* ------------------------------ helpers -------------------------------- *)

generateId(t, r) == <<t, r>>

\* Falsy with the test for an empty value lost: only an absent field counts.
FalsyAbsentOnly(body, f) == f \notin DOMAIN body

\* !v for a body field: absent (undefined) or one of the falsy values the
\* bodies hold, the empty string and the number 0 (JSON text "0", in age).
Falsy(body, f) == f \notin DOMAIN body \/ body[f] \in {"", "0"}

\* findEmail comparing the wrong property of the stored record.
findEmailByName(users, email) ==
    \E i \in 1..Len(users) : "name" \in DOMAIN users[i] /\ users[i]["name"] = email

\* users.find(user => user.email === email) found something.
findEmail(users, email) ==
    \E i \in 1..Len(users) : "email" \in DOMAIN users[i] /\ users[i]["email"] = email

\* findIndex whose -1 is used as an index from the end of the array.
findIndexOrLast(users, userId) ==
    IF \E i \in 1..Len(users) : users[i]["_id"] = userId
    THEN CHOOSE i \in 1..Len(users) :
            /\ users[i]["_id"] = userId
            /\ \A j \in 1..(i - 1) : users[j]["_id"] # userId
    ELSE Len(users)

\* users.findIndex(user => user._id === userId); 0 when there is none.
findIndex(users, userId) ==
    IF \E i \in 1..Len(users) : users[i]["_id"] = userId
    THEN CHOOSE i \in 1..Len(users) :
            /\ users[i]["_id"] = userId
            /\ \A j \in 1..(i - 1) : users[j]["_id"] # userId
    ELSE 0

\* The record POST /users builds. Its three clock reads (generateId and the
\* two new Date()) are consecutive synchronous statements: one value t.
newUser(body, t, r) ==
    [ _id |-> generateId(t, r),
      name |-> body["name"],
      email |-> body["email"],
      age |-> IF Falsy(body, "age") THEN "null" ELSE body["age"],
      country |-> IF Falsy(body, "country") THEN "Unknown" ELSE body["country"],
      createdAt |-> t,
      updatedAt |-> t ]

\* mergeUser that stamps createdAt along with updatedAt.
mergeUserStampBoth(user, updateData, t) ==
    [ f \in (DOMAIN user \cup DOMAIN updateData \cup {"updatedAt"}) |->
        IF f \in {"updatedAt", "createdAt"} THEN t
        ELSE IF f \in DOMAIN updateData THEN updateData[f]
        ELSE user[f] ]

\* mergeUser with a whitelist: _id and createdAt of the body are ignored.
mergeUserWhitelist(user, updateData, t) ==
    [ f \in (DOMAIN user \cup DOMAIN updateData \cup {"updatedAt"}) |->
        IF f = "updatedAt" THEN t
        ELSE IF f \in DOMAIN updateData /\ ~(f \in {"_id", "createdAt"} /\ f \in DOMAIN user)
        THEN updateData[f]
        ELSE user[f] ]

\* { ...user, ...updateData, updatedAt: new Date().toISOString() }
mergeUser(user, updateData, t) ==
    [ f \in (DOMAIN user \cup DOMAIN updateData \cup {"updatedAt"}) |->
        IF f = "updatedAt" THEN t
        ELSE IF f \in DOMAIN updateData THEN updateData[f]
        ELSE user[f] ]

\* users after users.unshift(user)
unshift(users, user) == <<user>> \o users

\* users after users.push(user)
push(users, user) == Append(users, user)

\* users after users.splice(i): the delete count left out
spliceFrom(users, i) == SubSeq(users, 1, i - 1)

\* users after users.splice(i, 1)
splice(users, i) == SubSeq(users, 1, i - 1) \o SubSeq(users, i + 1, Len(users))

(* ------------------------------- state --------------------------------- *)

core == <<file, now, route, resp, io>>
hist == <<issued, deleted, created, noDelete, noUpdate>>
conc == <<flight, stable>>
fault == <<before, readErr>>

Slots == 1..MaxInFlight

\* A slot no request occupies.
Idle ==
    [ pc |-> "idle", op |-> "none", id |-> <<>>, body |-> <<>>, users |-> <<>>,
      towrite |-> <<>>, ok |-> [status |-> 0], out |-> <<>> ]

Init ==
    /\ file \in {Missing, Garbage, JSONstringify(<<>>)}
    /\ now = 0
    /\ route = "none"
    /\ resp = [status |-> 0]
    /\ io = <<>>
    /\ issued = {}
    /\ deleted = {}
    /\ created = <<>>
    /\ noDelete = TRUE
    /\ noUpdate = TRUE
    /\ flight = [p \in Slots |-> Idle]
    /\ stable = <<>>
    /\ before = Missing
    /\ readErr = FALSE

\* GET /users answering with the first record only.
GetUsersFirstOnly ==
    LET users == readUsers(file) IN
    /\ route' = "GET /users"
    /\ io' = <<"read">>
    /\ resp' = [status |-> 200, success |-> TRUE, count |-> Len(users),
                data |-> IF Len(users) = 0 THEN users ELSE <<users[1]>>]
    /\ UNCHANGED <<file, now>>

\* GET /users
GetUsers ==
    LET users == readUsers(file) IN
    /\ route' = "GET /users"
    /\ io' = <<"read">>
    /\ resp' = [status |-> 200, success |-> TRUE, count |-> Len(users), data |-> users]
    /\ UNCHANGED <<file, now>>

\* POST /users
PostUsers(body) ==
    LET users == readUsers(file) IN
    /\ Len(users) < MaxUsers
    /\ route' = "POST /users"
    /\ IF Falsy(body, "name") \/ Falsy(body, "email")
       THEN /\ resp' = [status |-> 400, success |-> FALSE,
                        message |-> "Name and email are required fields"]
            /\ io' = <<>>
            /\ UNCHANGED <<file, now>>
       ELSE IF findEmail(users, body["email"])
       THEN /\ resp' = [status |-> 400, success |-> FALSE,
                        message |-> "Email already exists"]
            /\ io' = <<"read">>
            /\ UNCHANGED <<file, now>>
       ELSE \E t \in Times, r \in Rand :
            LET user == newUser(body, t, r) IN
            /\ now <= t
            /\ now' = t
            /\ file' = writeUsers(push(users, user))
            /\ io' = <<"read", "write">>
            /\ resp' = [status |-> 201, success |-> TRUE,
                        message |-> "User created successfully", data |-> user]

\* PUT /users/:id
PutUser(userId, updateData) ==
    LET users     == readUsers(file)
        userIndex == findIndex(users, userId)
    IN
    /\ route' = "PUT /users/:id"
    /\ IF userIndex = 0
       THEN /\ resp' = [status |-> 404, success |-> FALSE, message |-> "User not found"]
            /\ io' = <<"read">>
            /\ UNCHANGED <<file, now>>
       ELSE \E t \in Times :
            LET updated == [users EXCEPT
                              ![userIndex] = mergeUser(users[userIndex], updateData, t)]
            IN
            /\ now <= t
            /\ now' = t
            /\ file' = writeUsers(updated)
            /\ io' = <<"read", "write">>
            /\ resp' = [status |-> 200, success |-> TRUE,
                        message |-> "User updated successfully",
                        data |-> updated[userIndex]]

\* DELETE /users/:id
DeleteUser(userId) ==
    LET users     == readUsers(file)
        userIndex == findIndex(users, userId)
    IN
    /\ route' = "DELETE /users/:id"
    /\ IF userIndex = 0
       THEN /\ resp' = [status |-> 404, success |-> FALSE, message |-> "User not found"]
            /\ io' = <<"read">>
            /\ UNCHANGED <<file, now>>
       ELSE /\ file' = writeUsers(splice(users, userIndex))
            /\ io' = <<"read", "write">>
            /\ resp' = [status |-> 200, success |-> TRUE,
                        message |-> "User deleted successfully",
                        data |-> users[userIndex]]
            /\ UNCHANGED now

\* The requests served one at a time; the history variables stay as Init set them.
Next ==
    \/ GetUsers /\ UNCHANGED <<hist, conc, fault>>
    \/ \E body \in CreateBodies : PostUsers(body) /\ UNCHANGED <<hist, conc, fault>>
    \/ \E userId \in IdSpace, updateData \in UpdateBodies :
          PutUser(userId, updateData) /\ UNCHANGED <<hist, conc, fault>>
    \/ \E userId \in IdSpace : DeleteUser(userId) /\ UNCHANGED <<hist, conc, fault>>

Spec == Init /\ [][Next]_vars

(* The same requests, with the ids answered and deleted recorded.           *)

RecordPost ==
    /\ deleted' = {}
    /\ issued' = IF resp'.status = 201 THEN issued \cup {resp'.data["_id"]} ELSE issued
    /\ UNCHANGED <<created, noDelete, noUpdate>>

RecordPut ==
    /\ deleted' = {}
    /\ UNCHANGED <<issued, created, noDelete, noUpdate>>

RecordDelete(userId) ==
    /\ deleted' = IF resp'.status = 200 THEN deleted \cup {userId} ELSE deleted
    /\ UNCHANGED <<issued, created, noDelete, noUpdate>>

NextIds ==
    \/ GetUsers /\ UNCHANGED <<hist, conc, fault>>
    \/ \E body \in CreateBodies : PostUsers(body) /\ RecordPost /\ UNCHANGED <<conc, fault>>
    \/ \E userId \in IdSpace, updateData \in UpdateBodies :
          PutUser(userId, updateData) /\ RecordPut /\ UNCHANGED <<conc, fault>>
    \/ \E userId \in IdSpace : DeleteUser(userId) /\ RecordDelete(userId) /\ UNCHANGED <<conc, fault>>

SpecIds == Init /\ [][NextIds]_vars

(* The same requests, with the records answered 201 recorded.              *)

TrackPost ==
    /\ created' = IF resp'.status = 201 /\ noDelete
                  THEN Append(created, resp'.data) ELSE created
    /\ UNCHANGED <<issued, deleted, noDelete, noUpdate>>

TrackPut ==
    /\ noUpdate' = (noUpdate /\ resp'.status # 200)
    /\ UNCHANGED <<issued, deleted, created, noDelete>>

TrackDelete ==
    /\ noDelete' = (noDelete /\ resp'.status # 200)
    /\ created' = IF resp'.status = 200 THEN <<>> ELSE created
    /\ UNCHANGED <<issued, deleted, noUpdate>>

NextCreated ==
    \/ GetUsers /\ UNCHANGED <<hist, conc, fault>>
    \/ \E body \in CreateBodies :
          Len(readUsers(file)) < MaxRoundTrip /\ PostUsers(body) /\ TrackPost /\ UNCHANGED <<conc, fault>>
    \/ \E userId \in IdSpace, updateData \in UpdateBodies :
          PutUser(userId, updateData) /\ TrackPut /\ UNCHANGED <<conc, fault>>
    \/ \E userId \in IdSpace : DeleteUser(userId) /\ TrackDelete /\ UNCHANGED <<conc, fault>>

SpecCreated == Init /\ [][NextCreated]_vars

(* ------------------- the handlers, await by await ---------------------- *)
(* A handler runs synchronously up to its next await. readFile is one step; *)
(* fs.promises.writeFile is two: open with flag 'w', which truncates the   *)
(* file, then the write of the text at position 0. Each I/O step can fail. *)

\* users.json after open(DB_FILE, 'w').
Truncated == [kind |-> "empty", value |-> <<>>]

\* Length of a value's JSON text: an _id has 13 digits and 5 characters, an
\* ISO timestamp 24 characters, age is a number or null, the rest strings.
ValueLen(f, v) ==
    IF f = "_id" THEN 20
    ELSE IF f \in {"createdAt", "updatedAt"} THEN 26
    ELSE IF f = "age" THEN Len(v)
    ELSE Len(v) + 2

RECURSIVE FieldsLen(_, _)
FieldsLen(user, fields) ==
    IF fields = {} THEN 0
    ELSE LET f == CHOOSE x \in fields : TRUE IN
         10 + Len(f) + ValueLen(f, user[f]) + FieldsLen(user, fields \ {f})

RECURSIVE RecordsLen(_)
RecordsLen(users) ==
    IF users = <<>> THEN 0
    ELSE 8 + FieldsLen(users[1], DOMAIN users[1]) + RecordsLen(Tail(users))

\* Length of JSON.stringify(users, null, 2).
TextLen(users) == IF users = <<>> THEN 2 ELSE 2 + RecordsLen(users)

\* The file after text is written at position 0 of f: a longer text another
\* writer left there keeps its tail, which no JSON parser accepts.
Overwrite(f, users) ==
    IF f.kind \in {"json", "mixed"} /\ TextLen(f.value) > TextLen(users)
    THEN [kind |-> "mixed", value |-> f.value]
    ELSE writeUsers(users)

\* readUsersTry without the catch: the throw reaches the handler.
readUsersNoCatch(f, ioError) ==
    IF ioError \/ f.kind # "json"
    THEN [threw |-> TRUE, users |-> <<>>]
    ELSE [threw |-> FALSE, users |-> f.value]

\* readUsers with the throw of the helper shown: ioError is readFile failing;
\* the catch turns every throw into the empty array.
readUsersTry(f, ioError) ==
    IF ioError \/ f.kind # "json"
    THEN [threw |-> FALSE, users |-> <<>>]
    ELSE [threw |-> FALSE, users |-> f.value]

\* The requests with these create bodies and these path ids; an update
\* renames.
Requests(bodies, ids) ==
    { [op |-> "GET", id |-> <<>>, body |-> <<>>] }
    \cup { [op |-> "POST", id |-> <<>>, body |-> b] : b \in bodies }
    \cup { [op |-> "PUT", id |-> i, body |-> [name |-> "X"]] : i \in ids }
    \cup { [op |-> "DELETE", id |-> i, body |-> <<>>] : i \in ids }

\* Requests served one at a time.
SerialRequests == Requests(CreateBodies, IdSpace)

\* Requests served interleaved, all within the millisecond of the start:
\* creates with two emails (each may be sent twice), a create without email.
RacingRequests ==
    Requests({ [name |-> "Ann", email |-> "a@x"],
               [name |-> "Cy", email |-> "c@x"],
               [name |-> "Ann"] },
             { generateId(0, r) : r \in Rand })

\* Requests served interleaved with failing I/O: creates with one email.
FailingRequests ==
    Requests({ [name |-> "Ann", email |-> "a@x"], [name |-> "Ann"] },
             { generateId(0, r) : r \in Rand })

\* The catch block of each handler.
Caught(op) ==
    [ status |-> 500, success |-> FALSE,
      message |-> CASE op = "GET" -> "Server error while fetching users"
                    [] op = "POST" -> "Error creating user"
                    [] op = "PUT" -> "Error updating user"
                    [] OTHER -> "Error deleting user",
      error |-> "error.message" ]

\* res.status(..).json(..): the handler of slot p answers and ends.
Respond(slot, response) ==
    [slot EXCEPT !.pc = "done", !.out = Append(slot.out, response)]

\* A request arrives at slot p; the handler runs to its first await.
Start(p, r) ==
    /\ flight[p].pc = "idle"
    /\ r.op = "POST" => Len(readUsers(file)) < MaxUsers
    /\ LET slot == [Idle EXCEPT !.op = r.op, !.id = r.id, !.body = r.body] IN
       flight' = [flight EXCEPT ![p] =
           IF r.op = "POST" /\ (Falsy(r.body, "name") \/ Falsy(r.body, "email"))
           THEN Respond(slot, [status |-> 400, success |-> FALSE,
                               message |-> "Name and email are required fields"])
           ELSE [slot EXCEPT !.pc = "read"]]
    /\ UNCHANGED <<core, hist, stable>>

\* The handler of a slot from the return of readUsers to its next await.
AfterRead(slot, got, t, r) ==
    LET users     == got.users
        userIndex == findIndex(users, slot.id)
        user      == newUser(slot.body, t, r)
        seen      == [slot EXCEPT !.users = users]
    IN
    IF got.threw THEN Respond(seen, Caught(slot.op))
    ELSE IF slot.op = "GET"
    THEN Respond(seen, [status |-> 200, success |-> TRUE,
                        count |-> Len(users), data |-> users])
    ELSE IF slot.op = "POST"
    THEN IF findEmail(users, slot.body["email"])
         THEN Respond(seen, [status |-> 400, success |-> FALSE,
                             message |-> "Email already exists"])
         ELSE [seen EXCEPT !.pc = "open", !.towrite = push(users, user),
                           !.ok = [status |-> 201, success |-> TRUE,
                                   message |-> "User created successfully",
                                   data |-> user]]
    ELSE IF userIndex = 0
    THEN Respond(seen, [status |-> 404, success |-> FALSE,
                        message |-> "User not found"])
    ELSE IF slot.op = "PUT"
    THEN LET updated == [users EXCEPT
                           ![userIndex] = mergeUser(users[userIndex], slot.body, t)]
         IN [seen EXCEPT !.pc = "open", !.towrite = updated,
                         !.ok = [status |-> 200, success |-> TRUE,
                                 message |-> "User updated successfully",
                                 data |-> updated[userIndex]]]
    ELSE [seen EXCEPT !.pc = "open", !.towrite = splice(users, userIndex),
                      !.ok = [status |-> 200, success |-> TRUE,
                              message |-> "User deleted successfully",
                              data |-> users[userIndex]]]

\* await readUsers() returns in slot p; ioError: readFile failed. The create
\* and the update then read the clock (a value of the set clock), the create
\* draws its random suffix.
Read(p, ioError, clock) ==
    /\ flight[p].pc = "read"
    /\ \E t \in clock, r \in Rand :
         LET next == AfterRead(flight[p], readUsersTry(file, ioError), t, r) IN
         /\ now <= t
         /\ flight' = [flight EXCEPT ![p] = next]
         /\ now' = IF next.pc = "open" /\ flight[p].op \in {"POST", "PUT"} THEN t ELSE now
    /\ UNCHANGED <<file, route, resp, io, hist, stable>>

\* writeFile opens users.json: the file is truncated.
WriteOpen(p) ==
    /\ flight[p].pc = "open"
    /\ file' = Truncated
    /\ flight' = [flight EXCEPT ![p].pc = "data"]
    /\ UNCHANGED <<now, route, resp, io, hist, stable>>

\* writeFile fails to open users.json: writeUsers throws, the catch answers.
WriteOpenFails(p) ==
    /\ flight[p].pc = "open"
    /\ flight' = [flight EXCEPT ![p] = Respond(flight[p], Caught(flight[p].op))]
    /\ UNCHANGED <<core, hist, stable>>

\* WriteData writing the array as readUsers returned it.
WriteDataSnapshot(p) ==
    /\ flight[p].pc = "data"
    /\ file' = Overwrite(file, flight[p].users)
    /\ stable' = IF file'.kind = "json" THEN flight[p].users ELSE stable
    /\ flight' = [flight EXCEPT ![p] = Respond(flight[p], flight[p].ok)]
    /\ UNCHANGED <<now, route, resp, io, hist>>

\* writeFile writes the text and the handler answers.
WriteData(p) ==
    /\ flight[p].pc = "data"
    /\ file' = Overwrite(file, flight[p].towrite)
    /\ stable' = IF file'.kind = "json" THEN flight[p].towrite ELSE stable
    /\ flight' = [flight EXCEPT ![p] = Respond(flight[p], flight[p].ok)]
    /\ UNCHANGED <<now, route, resp, io, hist>>

\* WriteDataFails with the rejection of writeFile caught by no one.
WriteDataFailsUncaught(p) ==
    /\ flight[p].pc = "data"
    /\ flight' = [flight EXCEPT ![p].pc = "thrown"]
    /\ UNCHANGED <<core, hist, stable>>

\* The write fails after the truncation: writeUsers throws, the catch answers.
WriteDataFails(p) ==
    /\ flight[p].pc = "data"
    /\ flight' = [flight EXCEPT ![p] = Respond(flight[p], Caught(flight[p].op))]
    /\ UNCHANGED <<core, hist, stable>>

\* The answered request leaves its slot.
Retire(p) ==
    /\ flight[p].pc = "done"
    /\ flight' = [flight EXCEPT ![p] = Idle]
    /\ UNCHANGED <<core, hist, stable>>

\* Up to MaxInFlight requests interleaved, every I/O operation succeeding.
NextConc ==
    \/ \E p \in Slots, r \in RacingRequests : Start(p, r) /\ UNCHANGED fault
    \/ \E p \in Slots : Read(p, FALSE, {now}) /\ UNCHANGED fault
    \/ \E p \in Slots : WriteOpen(p) /\ UNCHANGED fault
    \/ \E p \in Slots : WriteData(p) /\ UNCHANGED fault
    \/ \E p \in Slots : Retire(p) /\ UNCHANGED fault

SpecConc == Init /\ [][NextConc]_vars

\* One request at a time, its I/O operations succeeding or failing.
NextFault ==
    \/ \E r \in SerialRequests :
          Start(1, r) /\ before' = file /\ readErr' = FALSE
    \/ \E ioError \in BOOLEAN :
          /\ Read(1, ioError, Times)
          /\ readErr' = (ioError \/ file.kind # "json")
          /\ UNCHANGED before
    \/ WriteOpen(1) /\ UNCHANGED fault
    \/ WriteOpenFails(1) /\ UNCHANGED fault
    \/ WriteData(1) /\ UNCHANGED fault
    \/ WriteDataFails(1) /\ UNCHANGED fault
    \/ Retire(1) /\ UNCHANGED fault

SpecFault == Init /\ [][NextFault]_vars

\* An I/O operation a handler awaits completes, one way or the other.
Completes(p) ==
    /\ \/ \E ioError \in BOOLEAN : Read(p, ioError, {now})
       \/ WriteOpen(p)
       \/ WriteOpenFails(p)
       \/ WriteData(p)
       \/ WriteDataFails(p)
    /\ UNCHANGED fault

\* Interleaved requests with failing I/O; every awaited operation completes.
NextLive ==
    \/ \E p \in Slots, r \in FailingRequests : Start(p, r) /\ UNCHANGED fault
    \/ \E p \in Slots : Completes(p)
    \/ \E p \in Slots : Retire(p) /\ UNCHANGED fault

SpecLive == Init /\ [][NextLive]_vars /\ \A p \in Slots : WF_vars(Completes(p))

(* ------------------------------ properties ----------------------------- *)

\* The _ids of a collection, in order.
Ids(users) == [i \in 1..Len(users) |-> users[i]["_id"]]

\* old with its k-th record taken out is new.
Removed(old, new, k) ==
    /\ Len(new) = Len(old) - 1
    /\ \A j \in 1..Len(new) : new[j] = IF j < k THEN old[j] ELSE old[j + 1]

\* C1: in every reachable state no two stored records have the same _id, and
\* a step that neither adds nor removes a record leaves every record's _id as
\* it was.
C1_IdsUniqueAndImmutable ==
    [][LET old == readUsers(file)
           new == readUsers(file')
       IN
       /\ \A i, j \in 1..Len(new) : i # j => new[i]["_id"] # new[j]["_id"]
       /\ Len(new) = Len(old) => Ids(new) = Ids(old)]_vars

\* C2: a create with a non-empty name and email, the email stored in no
\* record, responds 201 with a record whose _id is non-empty and was issued by
\* no earlier create, and the collection afterwards is the prior collection
\* with that record appended.
C2_CreateIssuesFreshId ==
    [][\A body \in CreateBodies :
         LET old == readUsers(file) IN
         ( /\ PostUsers(body)
           /\ "name" \in DOMAIN body /\ body["name"] # ""
           /\ "email" \in DOMAIN body /\ body["email"] # ""
           /\ \A i \in 1..Len(old) : old[i]["email"] # body["email"] )
         => /\ resp'.status = 201
            /\ resp'.data["_id"] # <<>>
            /\ resp'.data["_id"] \notin issued
            /\ readUsers(file') = Append(old, resp'.data)]_vars

C4_MissingFieldRejected ==
    [][\A body \in CreateBodies :
         ( /\ PostUsers(body)
           /\ \/ "name" \notin DOMAIN body
              \/ body["name"] = ""
              \/ "email" \notin DOMAIN body
              \/ body["email"] = "" )
         => /\ resp'.status = 400
            /\ resp'.message = "Name and email are required fields"
            /\ io' = <<>>
            /\ file' = file]_vars

C4_Witness ==
    /\ route = "POST /users"
    /\ resp.status = 400
    /\ resp.message = "Name and email are required fields"
    /\ io = <<>>
    /\ Len(readUsers(file)) > 0

\* C5: an update that responds 200 changes, in the record it targets, only
\* the fields its body names and updatedAt, does not move updatedAt back, and
\* leaves the other records, their order and their number as they were.
C5_UpdateFrame ==
    [][\A userId \in IdSpace, updateData \in UpdateBodies :
         LET old == readUsers(file)
             new == readUsers(file')
         IN
         (PutUser(userId, updateData) /\ resp'.status = 200)
         => /\ Len(new) = Len(old)
            /\ \E k \in 1..Len(old) :
                 /\ old[k]["_id"] = userId
                 /\ \A j \in 1..Len(old) : j # k => new[j] = old[j]
                 /\ \A f \in (DOMAIN old[k] \cup DOMAIN new[k])
                               \ (DOMAIN updateData \cup {"updatedAt"}) :
                      /\ f \in DOMAIN old[k]
                      /\ f \in DOMAIN new[k]
                      /\ new[k][f] = old[k][f]
                 /\ new[k]["updatedAt"] >= old[k]["updatedAt"]
                 /\ resp'.data = new[k]]_vars

C5_Witness ==
    /\ route = "PUT /users/:id"
    /\ resp.status = 200
    /\ Len(readUsers(file)) >= 2
    /\ resp.data["name"] = "X"
    /\ resp.data["updatedAt"] > resp.data["createdAt"]

\* C6: an update whose path id is the _id of no stored record responds 404
\* "User not found" and writes nothing.
C6_UpdateUnknownId ==
    [][\A userId \in IdSpace, updateData \in UpdateBodies :
         LET old == readUsers(file) IN
         ( /\ PutUser(userId, updateData)
           /\ \A i \in 1..Len(old) : old[i]["_id"] # userId )
         => /\ resp'.status = 404
            /\ resp'.message = "User not found"
            /\ io' = <<"read">>
            /\ file' = file]_vars

C6_Witness ==
    /\ route = "PUT /users/:id"
    /\ resp.status = 404
    /\ Len(readUsers(file)) > 0

\* C7: a delete whose path id is the _id of a stored record responds 200 with
\* that record as data, and the collection afterwards is the prior one with
\* exactly that one element taken out, the rest unchanged and in order.
C7_DeleteRemovesOne ==
    [][\A userId \in IdSpace :
         LET old == readUsers(file)
             new == readUsers(file')
         IN
         ( /\ DeleteUser(userId)
           /\ \E i \in 1..Len(old) : old[i]["_id"] = userId )
         => /\ resp'.status = 200
            /\ \E k \in 1..Len(old) :
                 /\ old[k]["_id"] = userId
                 /\ resp'.data = old[k]
                 /\ Removed(old, new, k)]_vars

C7_Witness ==
    /\ route = "DELETE /users/:id"
    /\ resp.status = 200
    /\ Len(readUsers(file)) >= 2
    /\ readUsers(file)[1]["name"] = "Ann"
    /\ resp.data["name"] = "X"
    /\ readUsers(file)[2]["name"] = "Bob"

\* C8: a list that follows a delete of id X answered 200, with no create or
\* update in between, returns no record whose _id is X.
C8_DeletedIdNotListed ==
    route = "GET /users" =>
        \A i \in 1..Len(resp.data) : resp.data[i]["_id"] \notin deleted

\* C9: a delete whose path id is the _id of no stored record responds 404
\* "User not found" and writes nothing.
C9_DeleteUnknownId ==
    [][\A userId \in IdSpace :
         LET old == readUsers(file) IN
         ( /\ DeleteUser(userId)
           /\ \A i \in 1..Len(old) : old[i]["_id"] # userId )
         => /\ resp'.status = 404
            /\ resp'.message = "User not found"
            /\ io' = <<"read">>
            /\ file' = file]_vars

C9_Witness ==
    /\ route = "DELETE /users/:id"
    /\ resp.status = 404
    /\ Len(readUsers(file)) > 0

\* C10 as stated: from an empty store, while no delete has responded 200, a
\* list returns exactly the records the creates were answered with, in the
\* order of the creates.
C10_ListReturnsCreated ==
    (route = "GET /users" /\ noDelete) => resp.data = created

\* C10 amended: from an empty store, while no delete and no update has
\* responded 200, a list returns exactly the records the creates were
\* answered with, in the order of the creates.
C10_ListReturnsCreatedUntouched ==
    (route = "GET /users" /\ noDelete /\ noUpdate) => resp.data = created

C10_Witness ==
    /\ route = "GET /users"
    /\ noDelete
    /\ noUpdate
    /\ Len(created) >= 2
    /\ resp.count = Len(created)

\* C11: a list responds 200 with data equal to the collection the file holds
\* and count equal to the number of its records, and never writes the file.
C11_ListReturnsStored ==
    [][GetUsers =>
         LET stored == IF file.kind = "json" THEN file.value ELSE <<>> IN
         /\ resp'.status = 200
         /\ resp'.data = stored
         /\ resp'.count = Len(stored)
         /\ resp'.count = Len(resp'.data)
         /\ io' = <<"read">>
         /\ file' = file]_vars

C11_Witness ==
    /\ route = "GET /users"
    /\ resp.status = 200
    /\ resp.count = 2
    /\ resp.data = file.value

\* The request of a slot was answered with this status.
Answered(slot, status) ==
    slot.pc = "done" /\ Len(slot.out) = 1 /\ slot.out[1].status = status

\* C12: when writing the file fails during a create, an update or a delete,
\* the handler answers 500 with the envelope {success: false, message, error}
\* and the stored collection is the one from before the request.
C12_FailedWriteKeepsStore ==
    LET slot == flight[1] IN
    (slot.op \in {"POST", "PUT", "DELETE"} /\ Answered(slot, 500))
    => /\ DOMAIN slot.out[1] = {"status", "success", "message", "error"}
       /\ slot.out[1].success = FALSE
       /\ readUsers(file) = readUsers(before)

\* The mutating request of a slot was answered with success.
Succeeded(slot) ==
    /\ slot.op \in {"POST", "PUT", "DELETE"}
    /\ slot.pc = "done"
    /\ Len(slot.out) = 1
    /\ slot.out[1].success

\* new is old with the one change the answered request of the slot made.
OnlyChangeOf(slot, old, new) ==
    LET data == slot.out[1].data IN
    CASE slot.op = "POST" -> new = Append(old, data)
      [] slot.op = "PUT" ->
            \E k \in 1..Len(old) :
               /\ old[k]["_id"] = slot.id
               /\ new = [old EXCEPT ![k] = data]
      [] OTHER ->
            \E k \in 1..Len(old) : old[k] = data /\ Removed(old, new, k)

\* C13: with two mutating requests in flight, both having read the same
\* collection and the first answered with success, the write of the second
\* is answered with success too and stores the collection both read with the
\* second one's change only.
C13_LaterWriterWins ==
    [][\A p, q \in Slots :
         (/\ p # q
          /\ Succeeded(flight[p])
          /\ flight[q].pc = "data"
          /\ flight'[q].pc = "done"
          /\ flight[q].users = flight[p].users
          /\ file'.kind = "json")
         => /\ Succeeded(flight'[q])
            /\ OnlyChangeOf(flight'[q], flight[p].users, readUsers(file'))]_vars

\* Two creates read the same collection, both were answered 201, and the file
\* holds the record of one of them only.
C13_Witness ==
    \E p, q \in Slots :
       /\ p # q
       /\ Answered(flight[p], 201)
       /\ Answered(flight[q], 201)
       /\ flight[p].users = flight[q].users
       /\ flight[p].out[1].data # flight[q].out[1].data
       /\ file = JSONstringify(Append(flight[q].users, flight[q].out[1].data))
       /\ \A i \in 1..Len(file.value) : file.value[i] # flight[p].out[1].data

\* C14: the record a create answered 201 adds has an email different from
\* that of every record of the stored collection at the moment the create
\* writes it, in every interleaving of requests.
C14_CreatedEmailUnique ==
    [][\A p \in Slots :
         (/\ flight[p].op = "POST"
          /\ flight[p].pc = "data"
          /\ Answered(flight'[p], 201))
         => ~findEmail(stable, flight'[p].out[1].data["email"])]_vars

\* The second wording of C14: no stored collection holds two records with
\* the same email (the updates of SpecConc leave the email alone).
C14_NoStoredDuplicate ==
    LET users == readUsers(file) IN
    \A i, j \in 1..Len(users) : users[i]["email"] = users[j]["email"] => i = j

\* C15: the record a successful update stores is the existing record overlaid
\* with every field of the body, _id and createdAt included, and then with
\* updatedAt set to the time the server read, also when the body holds an
\* updatedAt.
C15_UpdateOverlaysEveryField ==
    [][\A userId \in IdSpace, updateData \in UpdateBodies :
         LET old == readUsers(file)
             new == readUsers(file')
         IN
         (PutUser(userId, updateData) /\ resp'.status = 200)
         => \E k \in 1..Len(old) :
              /\ old[k]["_id"] = userId
              /\ \A j \in 1..(k - 1) : old[j]["_id"] # userId
              /\ DOMAIN new[k] = DOMAIN old[k] \cup DOMAIN updateData \cup {"updatedAt"}
              /\ \A f \in DOMAIN updateData \ {"updatedAt"} : new[k][f] = updateData[f]
              /\ \A f \in DOMAIN old[k] \ (DOMAIN updateData \cup {"updatedAt"}) :
                   new[k][f] = old[k][f]
              /\ new[k]["updatedAt"] = now'
              /\ now' >= now]_vars

C15_Witness ==
    /\ route = "PUT /users/:id"
    /\ resp.status = 200
    /\ "role" \in DOMAIN resp.data
    /\ resp.data["role"] = "admin"
    /\ resp.data["_id"] = ClientId
    /\ resp.data["createdAt"] = 0
    /\ resp.data["updatedAt"] = 1
    /\ \E i \in 1..Len(readUsers(file)) : readUsers(file)[i] = resp.data

\* C16: when users.json is missing, unreadable or unparseable, the read
\* helper yields the empty collection and no error: a list answers 200 with
\* count 0 and empty data, an update and a delete answer 404 and write nothing.
C16_UnreadableFileIsEmpty ==
    LET slot == flight[1] IN
    (readErr /\ slot.pc \notin {"idle", "read"})
    => /\ slot.users = <<>>
       /\ slot.op = "GET" =>
             /\ Answered(slot, 200)
             /\ slot.out[1].success
             /\ slot.out[1].count = 0
             /\ slot.out[1].data = <<>>
             /\ file = before
       /\ slot.op \in {"PUT", "DELETE"} =>
             /\ Answered(slot, 404)
             /\ file = before

\* A delete found users.json unreadable while it held records: 404.
C16_Witness ==
    /\ readErr
    /\ flight[1].op = "DELETE"
    /\ Answered(flight[1], 404)
    /\ before.kind = "json"
    /\ before.value # <<>>


\* The statuses C17 allows an operation.
StatusesOf(op) ==
    CASE op = "GET" -> {200, 500}
      [] op = "POST" -> {201, 400, 500}
      [] OTHER -> {200, 404, 500}

C18_ReadSeesWholeCollection ==
    [][\A p, q \in Slots :
         (/\ p # q
          /\ flight[q].pc = "data"
          /\ flight[p].pc = "read"
          /\ flight'[p].pc # "read")
         => flight'[p].users \in {stable, flight[q].towrite}]_vars

\* C19: a create answered 201 leaves in the file every record the file held
\* when the request arrived, also when the file could not be read or parsed.
C19_CreateKeepsRecords ==
    LET slot == flight[1]
        old  == readUsers(before)
        new  == readUsers(file)
    IN
    (slot.op = "POST" /\ Answered(slot, 201))
    => \A i \in 1..Len(old) : \E j \in 1..Len(new) : new[j] = old[i]

====
